---- MODULE Spec2Model ----
(***************************************************************************)
(* Model of prow/cmd/jenkins-operator/main.go: the startup sequence of     *)
(* main, the serving goroutine (serve), the metrics goroutine (gather)     *)
(* and the reconcile loop at the end of main, with the two time.Tick       *)
(* timers, the two signal.Notify channels and process exit.                *)
(*                                                                         *)
(* Time is discrete.  The clock starts when the first timer is created and *)
(* advances in steps of TimeStep seconds.  A goroutine that has a local    *)
(* step ready (a select with a ready case, a log line, a registration)     *)
(* takes it before time advances; calls into collaborators (c.Sync,        *)
(* c.SyncMetrics) and the scheduling of a freshly spawned goroutine take   *)
(* an arbitrary amount of time.                                            *)
(***************************************************************************)
EXTENDS Integers, FiniteSets, Sequences, TLC

\* ---- bounds of the model ----
MaxClock == 100
MaxSignals == 1
MaxRequests == 1
\* longest time, in seconds, a spawned goroutine waits before it first runs
MaxStartDelay == 10

\* ---- program constants ----
\* time.Tick(30 * time.Second), in seconds (main.go:145 and main.go:210)
Interval == 30
\* buffer of the channel returned by time.Tick
TickChanCap == 1

\* granularity of the clock: six clock steps per timer interval
TimeStep == Interval \div 6

\* exit status of the process; Running while it has not exited
Running == -1
ExitOK == 0
ExitFatal == 1
ExitKilled == 2

VARIABLES
    exitCode,      \* Running, or the exit status of the process
    fatalMsg,      \* message of the logrus Fatal call that ended the process, "" if none
    flags,         \* [token, bearer]: is -jenkins-token-file / -jenkins-bearer-token-file non-empty
    mainpc,        \* position of main
    created,       \* objects constructed so far by main
    auth,          \* fields of ac (jenkins.AuthConfig) that are set
    spawned,       \* number of goroutines started, per function
    servepc,       \* position of the serve goroutine
    served,        \* HTTP requests handled
    gatherpc,      \* position of the gather goroutine
    clock,         \* seconds since the first timer was created
    mainT0,        \* clock at which main's ticker was created, -1 before
    gatherT0,      \* clock at which gather's ticker was created, -1 before
    tickMain,      \* values buffered in main's tick channel
    tickGather,    \* values buffered in gather's tick channel
    notify,        \* goroutines whose sig channel is registered with signal.Notify
    sigMain,       \* -1: main's sig channel is empty; n >= 0: a signal has been buffered for n seconds
    sigGather,     \* the same for gather's sig channel
    sigCount,      \* SIGINT/SIGTERM signals sent to the process so far
    syncActive,    \* c.Sync calls in progress
    syncCalls,     \* c.Sync calls started
    syncErr,       \* did the last completed c.Sync return an error
    observations,  \* observations recorded on metrics.ResyncPeriod
    metricsActive, \* c.SyncMetrics calls in progress
    metricsCalls   \* c.SyncMetrics calls started

startupVars == <<flags, created, auth>>
procVars == <<exitCode, fatalMsg>>
serveVars == <<servepc, served>>
timeVars == <<clock, mainT0, gatherT0, tickMain, tickGather>>
sigVars == <<notify, sigMain, sigGather, sigCount>>
syncVars == <<syncActive, syncCalls, syncErr, observations>>
metricsVars == <<metricsActive, metricsCalls>>
vars == <<exitCode, fatalMsg, flags, mainpc, created, auth, spawned, servepc, served,
          gatherpc, clock, mainT0, gatherT0, tickMain, tickGather, notify, sigMain,
          sigGather, sigCount, syncActive, syncCalls, syncErr, observations,
          metricsActive, metricsCalls>>

\* every variable except mainpc, the process state and the listed group
mainRest == <<spawned, serveVars, gatherpc, timeVars, sigVars, syncVars, metricsVars>>

Init ==
    /\ exitCode = Running
    /\ fatalMsg = ""
    /\ flags \in [token : BOOLEAN, bearer : BOOLEAN]
    /\ mainpc = "parseSelector"
    /\ created = {}
    /\ auth = {}
    /\ spawned = [push |-> 0, serve |-> 0, gather |-> 0]
    /\ servepc = "none"
    /\ served = 0
    /\ gatherpc = "none"
    /\ clock = 0
    /\ mainT0 = -1
    /\ gatherT0 = -1
    /\ tickMain = 0
    /\ tickGather = 0
    /\ notify = {}
    /\ sigMain = -1
    /\ sigGather = -1
    /\ sigCount = 0
    /\ syncActive = 0
    /\ syncCalls = 0
    /\ syncErr = FALSE
    /\ observations = 0
    /\ metricsActive = 0
    /\ metricsCalls = 0

\* logger.Fatal / logger.Fatalf: log the message and os.Exit(1)
Fatal(msg) ==
    /\ exitCode' = ExitFatal
    /\ fatalMsg' = msg

\* one startup step of main that either fails fatally or constructs obj
StartupStep(pc, ok, msg, objs, next) ==
    /\ exitCode = Running
    /\ mainpc = pc
    /\ IF ok
         THEN /\ created' = created \cup objs
              /\ mainpc' = next
              /\ UNCHANGED procVars
         ELSE /\ Fatal(msg)
              /\ UNCHANGED <<created, mainpc>>

\* variant: the config agent is started before the selector is parsed
ParseSelectorLate ==
    /\ exitCode = Running
    /\ mainpc = "parseSelector"
    /\ created' = created \cup {"configAgent"}
    /\ \E ok \in BOOLEAN :
         IF ok
           THEN /\ mainpc' = "startConfig"
                /\ UNCHANGED procVars
           ELSE /\ Fatal("Error parsing label selector.")
                /\ UNCHANGED mainpc
    /\ UNCHANGED <<flags, auth, mainRest>>

\* labels.Parse(*selector)
ParseSelector ==
    /\ \E ok \in BOOLEAN :
         StartupStep("parseSelector", ok, "Error parsing label selector.", {}, "startConfig")
    /\ UNCHANGED <<flags, auth, mainRest>>

\* configAgent.Start(*configPath)
StartConfigAgent ==
    /\ \E ok \in BOOLEAN :
         StartupStep("startConfig", ok, "Error starting config agent.", {"configAgent"}, "kubeClient")
    /\ UNCHANGED <<flags, auth, mainRest>>

\* kube.NewClientInCluster(...)
NewKubeClient ==
    /\ \E ok \in BOOLEAN :
         StartupStep("kubeClient", ok, "Error getting kube client.", {"kc"}, "auth")
    /\ UNCHANGED <<flags, auth, mainRest>>

\* variant: two independent ifs, so both schemes are set when both files are given
SelectAuthBoth ==
    /\ exitCode = Running
    /\ mainpc = "auth"
    /\ \E readable \in BOOLEAN :
         IF ~flags.token /\ ~flags.bearer
           THEN /\ Fatal("An auth token for basic or bearer token auth must be supplied.")
                /\ UNCHANGED <<auth, mainpc>>
           ELSE IF readable
                  THEN /\ auth' = auth \cup (IF flags.token THEN {"Basic"} ELSE {})
                                     \cup (IF flags.bearer THEN {"BearerToken"} ELSE {})
                       /\ mainpc' = "tls"
                       /\ UNCHANGED procVars
                  ELSE /\ Fatal(IF flags.token THEN "Could not read token file."
                                               ELSE "Could not read bearer token file.")
                       /\ UNCHANGED <<auth, mainpc>>
    /\ created' = created \cup {"ac"}
    /\ UNCHANGED <<flags, mainRest>>

\* the if / else if / else that fills ac from the token files
SelectAuth ==
    /\ exitCode = Running
    /\ mainpc = "auth"
    /\ \E readable \in BOOLEAN :
         IF flags.token
           THEN IF readable
                  THEN /\ auth' = auth \cup {"Basic"}
                       /\ mainpc' = "tls"
                       /\ UNCHANGED procVars
                  ELSE /\ Fatal("Could not read token file.")
                       /\ UNCHANGED <<auth, mainpc>>
           ELSE IF flags.bearer
                  THEN IF readable
                         THEN /\ auth' = auth \cup {"BearerToken"}
                              /\ mainpc' = "tls"
                              /\ UNCHANGED procVars
                         ELSE /\ Fatal("Could not read bearer token file.")
                              /\ UNCHANGED <<auth, mainpc>>
                  ELSE /\ Fatal("An auth token for basic or bearer token auth must be supplied.")
                       /\ UNCHANGED <<auth, mainpc>>
    /\ created' = created \cup {"ac"}
    /\ UNCHANGED <<flags, mainRest>>

\* loadCerts when both -cert-file and -key-file are given
LoadTLS ==
    /\ \E configured \in BOOLEAN, ok \in BOOLEAN :
         StartupStep("tls", (~configured) \/ ok, "Could not read certificate files.", {}, "jenkinsClient")
    /\ UNCHANGED <<flags, auth, mainRest>>

\* variant: go serve(jc) placed right after the Jenkins client is built
NewJenkinsClientServing ==
    /\ StartupStep("jenkinsClient", TRUE, "", {"metrics", "jc"}, "githubToken")
    /\ spawned' = [spawned EXCEPT !.serve = @ + 1]
    /\ servepc' = "handle"
    /\ UNCHANGED <<flags, auth, served, gatherpc, timeVars, sigVars, syncVars, metricsVars>>

\* jenkins.NewMetrics() and jenkins.NewClient(...)
NewJenkinsClient ==
    /\ StartupStep("jenkinsClient", TRUE, "", {"metrics", "jc"}, "githubToken")
    /\ UNCHANGED <<flags, auth, mainRest>>

\* ioutil.ReadFile(*githubTokenFile)
ReadGithubToken ==
    /\ \E ok \in BOOLEAN :
         StartupStep("githubToken", ok, "Could not read Github oauth secret file.", {}, "githubEndpoint")
    /\ UNCHANGED <<flags, auth, mainRest>>

\* url.Parse(*githubEndpoint)
ParseGithubEndpoint ==
    /\ \E ok \in BOOLEAN :
         StartupStep("githubEndpoint", ok, "Must specify a valid --github-endpoint URL.", {}, "githubClient")
    /\ UNCHANGED <<flags, auth, mainRest>>

\* github.NewDryRunClient or github.NewClient, then jenkins.NewController
NewController ==
    /\ \E dryRun \in BOOLEAN :
         StartupStep("githubClient", TRUE, "", {"ghc", "c"}, "pushGateway")
    /\ UNCHANGED <<flags, auth, mainRest>>

\* go m.PushMetrics(...) when a push gateway endpoint is configured
StartPushMetrics ==
    /\ exitCode = Running
    /\ mainpc = "pushGateway"
    /\ \E endpointSet \in BOOLEAN :
         spawned' = IF endpointSet THEN [spawned EXCEPT !.push = @ + 1] ELSE spawned
    /\ mainpc' = "goServe"
    /\ UNCHANGED <<procVars, startupVars, serveVars, gatherpc, timeVars, sigVars, syncVars, metricsVars>>

\* go serve(jc)
GoServe ==
    /\ exitCode = Running
    /\ mainpc = "goServe"
    /\ spawned' = [spawned EXCEPT !.serve = @ + 1]
    /\ servepc' = "handle"
    /\ mainpc' = "goGather"
    /\ UNCHANGED <<procVars, startupVars, served, gatherpc, timeVars, sigVars, syncVars, metricsVars>>

\* go gather(c, logger)
GoGather ==
    /\ exitCode = Running
    /\ mainpc = "goGather"
    /\ spawned' = [spawned EXCEPT !.gather = @ + 1]
    /\ gatherpc' = "mkTick"
    /\ mainpc' = "mkTick"
    /\ UNCHANGED <<procVars, startupVars, serveVars, timeVars, sigVars, syncVars, metricsVars>>

\* ---- the reconcile loop of main ----

\* variant: a ticker that also fires at the moment it is created
MainMkTickEager ==
    /\ exitCode = Running
    /\ mainpc = "mkTick"
    /\ mainT0' = clock
    /\ tickMain' = 1
    /\ mainpc' = "notify"
    /\ UNCHANGED <<procVars, startupVars, spawned, serveVars, gatherpc, clock, gatherT0,
                   tickGather, sigVars, syncVars, metricsVars>>

\* tick := time.Tick(30 * time.Second)
MainMkTick ==
    /\ exitCode = Running
    /\ mainpc = "mkTick"
    /\ mainT0' = clock
    /\ mainpc' = "notify"
    /\ UNCHANGED <<procVars, startupVars, spawned, serveVars, gatherpc, clock, gatherT0,
                   tickMain, tickGather, sigVars, syncVars, metricsVars>>

\* sig := make(chan os.Signal, 1); signal.Notify(sig, os.Interrupt, syscall.SIGTERM)
MainNotify ==
    /\ exitCode = Running
    /\ mainpc = "notify"
    /\ notify' = notify \cup {"main"}
    /\ mainpc' = "select"
    /\ UNCHANGED <<procVars, startupVars, spawned, serveVars, gatherpc, timeVars,
                   sigMain, sigGather, sigCount, syncVars, metricsVars>>

\* variant: each tick starts the pass in its own goroutine (go c.Sync())
MainTickAsync ==
    /\ exitCode = Running
    /\ mainpc = "select"
    /\ tickMain > 0
    /\ tickMain' = tickMain - 1
    /\ syncActive' = syncActive + 1
    /\ syncCalls' = syncCalls + 1
    /\ UNCHANGED <<procVars, startupVars, mainpc, spawned, serveVars, gatherpc, clock, mainT0,
                   gatherT0, tickGather, sigVars, syncErr, observations, metricsVars>>

\* variant: the reconcile pass waits for a metrics pass in progress (a shared lock)
MainTickLocked ==
    /\ exitCode = Running
    /\ mainpc = "select"
    /\ tickMain > 0
    /\ metricsActive = 0
    /\ tickMain' = tickMain - 1
    /\ syncActive' = syncActive + 1
    /\ syncCalls' = syncCalls + 1
    /\ mainpc' = "sync"
    /\ UNCHANGED <<procVars, startupVars, spawned, serveVars, gatherpc, clock, mainT0,
                   gatherT0, tickGather, sigVars, syncErr, observations, metricsVars>>

\* case <-tick: start := time.Now(); c.Sync() is called
MainTick ==
    /\ exitCode = Running
    /\ mainpc = "select"
    /\ tickMain > 0
    /\ tickMain' = tickMain - 1
    /\ syncActive' = syncActive + 1
    /\ syncCalls' = syncCalls + 1
    /\ mainpc' = "sync"
    /\ UNCHANGED <<procVars, startupVars, spawned, serveVars, gatherpc, clock, mainT0,
                   gatherT0, tickGather, sigVars, syncErr, observations, metricsVars>>

\* variant: a failed pass is logged with logger.Fatal
MainSyncReturnFatal(err) ==
    /\ exitCode = Running
    /\ mainpc = "sync"
    /\ syncActive' = syncActive - 1
    /\ syncErr' = err
    /\ IF err
         THEN /\ Fatal("Error syncing.")
              /\ UNCHANGED mainpc
         ELSE /\ mainpc' = "observe"
              /\ UNCHANGED procVars
    /\ UNCHANGED <<startupVars, spawned, serveVars, gatherpc, timeVars, sigVars,
                   syncCalls, observations, metricsVars>>

\* variant: a failed pass ends the loop (return on error)
MainSyncReturnBreak(err) ==
    /\ exitCode = Running
    /\ mainpc = "sync"
    /\ syncActive' = syncActive - 1
    /\ syncErr' = err
    /\ IF err
         THEN /\ mainpc' = "done"
              /\ exitCode' = ExitOK
              /\ UNCHANGED fatalMsg
         ELSE /\ mainpc' = "observe"
              /\ UNCHANGED procVars
    /\ UNCHANGED <<startupVars, spawned, serveVars, gatherpc, timeVars, sigVars,
                   syncCalls, observations, metricsVars>>

\* c.Sync() returns err; a non-nil err is logged with logger.Error
MainSyncReturn(err) ==
    /\ exitCode = Running
    /\ mainpc = "sync"
    /\ syncActive' = syncActive - 1
    /\ syncErr' = err
    /\ mainpc' = "observe"
    /\ UNCHANGED <<procVars, startupVars, spawned, serveVars, gatherpc, timeVars, sigVars,
                   syncCalls, observations, metricsVars>>

MainSyncReturns == \E err \in BOOLEAN : MainSyncReturn(err)

\* variant: the duration is observed only when the pass succeeded
MainObserveOnSuccess ==
    /\ exitCode = Running
    /\ mainpc = "observe"
    /\ observations' = IF syncErr THEN observations ELSE observations + 1
    /\ mainpc' = "select"
    /\ UNCHANGED <<procVars, startupVars, spawned, serveVars, gatherpc, timeVars, sigVars,
                   syncActive, syncCalls, syncErr, metricsVars>>

\* variant: the loop body starts a further gather goroutine after each pass
MainObserveRespawn ==
    /\ exitCode = Running
    /\ mainpc = "observe"
    /\ observations' = observations + 1
    /\ spawned' = [spawned EXCEPT !.gather = @ + 1]
    /\ mainpc' = "select"
    /\ UNCHANGED <<procVars, startupVars, serveVars, gatherpc, timeVars, sigVars,
                   syncActive, syncCalls, syncErr, metricsVars>>

\* duration := time.Since(start); log; metrics.ResyncPeriod.Observe(duration.Seconds())
MainObserve ==
    /\ exitCode = Running
    /\ mainpc = "observe"
    /\ observations' = observations + 1
    /\ mainpc' = "select"
    /\ UNCHANGED <<procVars, startupVars, spawned, serveVars, gatherpc, timeVars, sigVars,
                   syncActive, syncCalls, syncErr, metricsVars>>

\* case <-sig: log and return from main, which ends the process with status 0
MainSig ==
    /\ exitCode = Running
    /\ mainpc = "select"
    /\ sigMain >= 0
    /\ sigMain' = -1
    /\ mainpc' = "done"
    /\ exitCode' = ExitOK
    /\ UNCHANGED <<fatalMsg, startupVars, spawned, serveVars, gatherpc, timeVars, notify,
                   sigGather, sigCount, syncVars, metricsVars>>

\* ---- the gather goroutine ----

\* tick := time.Tick(30 * time.Second)
GatherMkTick ==
    /\ exitCode = Running
    /\ gatherpc = "mkTick"
    /\ gatherT0' = clock
    /\ gatherpc' = "notify"
    /\ UNCHANGED <<procVars, startupVars, mainpc, spawned, serveVars, clock, mainT0,
                   tickMain, tickGather, sigVars, syncVars, metricsVars>>

\* sig := make(chan os.Signal, 1); signal.Notify(sig, os.Interrupt, syscall.SIGTERM)
GatherNotify ==
    /\ exitCode = Running
    /\ gatherpc = "notify"
    /\ notify' = notify \cup {"gather"}
    /\ gatherpc' = "select"
    /\ UNCHANGED <<procVars, startupVars, mainpc, spawned, serveVars, timeVars,
                   sigMain, sigGather, sigCount, syncVars, metricsVars>>

\* variant: the metrics pass waits for a reconcile pass in progress (a shared lock)
GatherTickLocked ==
    /\ exitCode = Running
    /\ gatherpc = "select"
    /\ tickGather > 0
    /\ syncActive = 0
    /\ tickGather' = tickGather - 1
    /\ metricsActive' = metricsActive + 1
    /\ metricsCalls' = metricsCalls + 1
    /\ gatherpc' = "syncMetrics"
    /\ UNCHANGED <<procVars, startupVars, mainpc, spawned, serveVars, clock, mainT0,
                   gatherT0, tickMain, sigVars, syncVars>>

\* case <-tick: start := time.Now(); c.SyncMetrics() is called
GatherTick ==
    /\ exitCode = Running
    /\ gatherpc = "select"
    /\ tickGather > 0
    /\ tickGather' = tickGather - 1
    /\ metricsActive' = metricsActive + 1
    /\ metricsCalls' = metricsCalls + 1
    /\ gatherpc' = "syncMetrics"
    /\ UNCHANGED <<procVars, startupVars, mainpc, spawned, serveVars, clock, mainT0,
                   gatherT0, tickMain, sigVars, syncVars>>

\* c.SyncMetrics() returns; the duration is logged at debug level
GatherSyncMetricsReturn ==
    /\ exitCode = Running
    /\ gatherpc = "syncMetrics"
    /\ metricsActive' = metricsActive - 1
    /\ gatherpc' = "select"
    /\ UNCHANGED <<procVars, startupVars, mainpc, spawned, serveVars, timeVars, sigVars,
                   syncVars, metricsCalls>>

\* variant: gather ends the process when it receives the signal (os.Exit(0))
GatherSigExit ==
    /\ exitCode = Running
    /\ gatherpc = "select"
    /\ sigGather >= 0
    /\ sigGather' = -1
    /\ gatherpc' = "done"
    /\ exitCode' = ExitOK
    /\ UNCHANGED <<fatalMsg, startupVars, mainpc, spawned, serveVars, timeVars, notify,
                   sigMain, sigCount, syncVars, metricsVars>>

\* variant: both loops read one shared sig channel, so gather's receive empties main's too
GatherSigShared ==
    /\ exitCode = Running
    /\ gatherpc = "select"
    /\ sigGather >= 0
    /\ sigGather' = -1
    /\ sigMain' = -1
    /\ gatherpc' = "done"
    /\ UNCHANGED <<procVars, startupVars, mainpc, spawned, serveVars, timeVars, notify,
                   sigCount, syncVars, metricsVars>>

\* case <-sig: log and return from gather; the goroutine ends
GatherSig ==
    /\ exitCode = Running
    /\ gatherpc = "select"
    /\ sigGather >= 0
    /\ sigGather' = -1
    /\ gatherpc' = "done"
    /\ UNCHANGED <<procVars, startupVars, mainpc, spawned, serveVars, timeVars, notify,
                   sigMain, sigCount, syncVars, metricsVars>>

\* ---- the serve goroutine ----

\* http.Handle("/", ...); http.Handle("/metrics", ...)
ServeHandle ==
    /\ exitCode = Running
    /\ servepc = "handle"
    /\ servepc' = "listen"
    /\ UNCHANGED <<procVars, startupVars, mainpc, spawned, served, gatherpc, timeVars,
                   sigVars, syncVars, metricsVars>>

\* http.ListenAndServe(":8080", nil) binds the port, or fails and returns at once
ServeListen ==
    /\ exitCode = Running
    /\ servepc = "listen"
    /\ \E bound \in BOOLEAN :
         IF bound
           THEN /\ servepc' = "serving"
                /\ UNCHANGED procVars
           ELSE /\ servepc' = "failed"
                /\ Fatal("ListenAndServe returned.")
    /\ UNCHANGED <<startupVars, mainpc, spawned, served, gatherpc, timeVars,
                   sigVars, syncVars, metricsVars>>

\* the server handles one request (a log or /metrics)
ServeRequest ==
    /\ exitCode = Running
    /\ servepc = "serving"
    /\ served < MaxRequests
    /\ served' = served + 1
    /\ UNCHANGED <<procVars, startupVars, mainpc, spawned, servepc, gatherpc, timeVars,
                   sigVars, syncVars, metricsVars>>

\* http.ListenAndServe returns while serving; logrus Fatal ends the process
ServeReturn ==
    /\ exitCode = Running
    /\ servepc = "serving"
    /\ servepc' = "failed"
    /\ Fatal("ListenAndServe returned.")
    /\ UNCHANGED <<startupVars, mainpc, spawned, served, gatherpc, timeVars,
                   sigVars, syncVars, metricsVars>>

\* ---- the environment: signals and time ----

\* non-blocking send of the os/signal package to one registered channel; the
\* channel made by make(chan os.Signal, 1) holds one signal, a further one is dropped
Deliver(who, ch) == IF who \in notify /\ ch = -1 THEN 0 ELSE ch

\* the operating system sends SIGINT or SIGTERM to the process
Signal ==
    /\ exitCode = Running
    /\ sigCount < MaxSignals
    /\ sigCount' = sigCount + 1
    /\ IF notify = {}
         THEN /\ exitCode' = ExitKilled
              /\ UNCHANGED <<sigMain, sigGather>>
         ELSE /\ sigMain' = Deliver("main", sigMain)
              /\ sigGather' = Deliver("gather", sigGather)
              /\ UNCHANGED exitCode
    /\ UNCHANGED <<fatalMsg, startupVars, mainpc, spawned, serveVars, gatherpc, timeVars,
                   notify, syncVars, metricsVars>>

\* age of a buffered signal after TimeStep more seconds, saturating
SigAgeCap == Interval + TimeStep
Older(ch) == IF ch >= 0 /\ ch < SigAgeCap THEN ch + TimeStep ELSE ch

\* variant: a ticker whose channel queues every tick
FireQueued(t0, ch, now) ==
    IF t0 >= 0 /\ now > t0 /\ (now - t0) % Interval = 0
      THEN ch + 1
      ELSE ch

\* the ticker's non-blocking send: a tick is dropped when the channel is full
Fire(t0, ch, now) ==
    IF t0 >= 0 /\ now > t0 /\ (now - t0) % Interval = 0
      THEN IF ch < TickChanCap THEN ch + 1 ELSE ch
      ELSE ch

\* a goroutine has a local step ready, which it takes before time advances
MainReady ==
    \/ mainpc \in {"mkTick", "notify", "observe"}
    \/ mainpc = "select" /\ (tickMain > 0 \/ sigMain >= 0)
GatherReady ==
    \/ gatherpc = "notify"
    \/ gatherpc = "mkTick" /\ clock >= MaxStartDelay
    \/ gatherpc = "select" /\ (tickGather > 0 \/ sigGather >= 0)

\* TimeStep seconds pass
Advance ==
    /\ exitCode = Running
    /\ mainT0 >= 0 \/ gatherT0 >= 0
    /\ ~MainReady
    /\ ~GatherReady
    /\ clock + TimeStep <= MaxClock
    /\ clock' = clock + TimeStep
    /\ tickMain' = Fire(mainT0, tickMain, clock')
    /\ tickGather' = Fire(gatherT0, tickGather, clock')
    /\ sigMain' = Older(sigMain)
    /\ sigGather' = Older(sigGather)
    /\ UNCHANGED <<procVars, startupVars, mainpc, spawned, serveVars, gatherpc, mainT0,
                   gatherT0, notify, sigCount, syncVars, metricsVars>>

Next ==
    \/ ParseSelector
    \/ StartConfigAgent
    \/ NewKubeClient
    \/ SelectAuth
    \/ LoadTLS
    \/ NewJenkinsClient
    \/ ReadGithubToken
    \/ ParseGithubEndpoint
    \/ NewController
    \/ StartPushMetrics
    \/ GoServe
    \/ GoGather
    \/ MainMkTick
    \/ MainNotify
    \/ MainTick
    \/ MainSyncReturns
    \/ MainObserve
    \/ MainSig
    \/ GatherMkTick
    \/ GatherNotify
    \/ GatherTick
    \/ GatherSyncMetricsReturn
    \/ GatherSig
    \/ ServeHandle
    \/ ServeListen
    \/ ServeRequest
    \/ ServeReturn
    \/ Signal
    \/ Advance

Spec == Init /\ [][Next]_vars

\* ---- the scenario in which every c.Sync succeeds and returns at once ----

\* c.Sync() returns nil
MainSyncReturnsOK == MainSyncReturn(FALSE)

\* TimeStep seconds pass; no time passes while c.Sync is in progress
AdvanceInstant ==
    /\ syncActive = 0
    /\ Advance

NextInstant ==
    \/ ParseSelector
    \/ StartConfigAgent
    \/ NewKubeClient
    \/ SelectAuth
    \/ LoadTLS
    \/ NewJenkinsClient
    \/ ReadGithubToken
    \/ ParseGithubEndpoint
    \/ NewController
    \/ StartPushMetrics
    \/ GoServe
    \/ GoGather
    \/ MainMkTick
    \/ MainNotify
    \/ MainTick
    \/ MainSyncReturnsOK
    \/ MainObserve
    \/ MainSig
    \/ GatherMkTick
    \/ GatherNotify
    \/ GatherTick
    \/ GatherSyncMetricsReturn
    \/ GatherSig
    \/ ServeHandle
    \/ ServeListen
    \/ ServeRequest
    \/ ServeReturn
    \/ Signal
    \/ AdvanceInstant

SpecInstant == Init /\ [][NextInstant]_vars

\* ---- properties ----

\* positions of main inside the for/select loop
LoopPCs == {"select", "sync", "observe"}

\* messages of the Fatal calls of the startup sequence
StartupFailures ==
    { "Error parsing label selector.",
      "Error starting config agent.",
      "Error getting kube client.",
      "Could not read token file.",
      "Could not read bearer token file.",
      "An auth token for basic or bearer token auth must be supplied.",
      "Could not read certificate files.",
      "Could not read Github oauth secret file.",
      "Must specify a valid --github-endpoint URL." }

\* C1: a loop that waits at its select with both a tick and a signal buffered
\* takes the shutdown branch, never the tick branch.
C1_ShutdownPreferred ==
    [][ /\ (mainpc = "select" /\ tickMain > 0 /\ sigMain >= 0) => syncCalls' = syncCalls
        /\ (gatherpc = "select" /\ tickGather > 0 /\ sigGather >= 0) => metricsCalls' = metricsCalls ]_vars

\* C2: when main returns on the signal, no c.Sync and no c.SyncMetrics call is
\* still in progress (every iteration that had started has completed).
C2_InFlightCompletes ==
    exitCode = ExitOK => (syncActive = 0 /\ metricsActive = 0)

\* C3: a signal buffered for a loop that is still running is received by that
\* loop within one tick interval, whatever c.Sync or c.SyncMetrics is doing.
C3_ObservedWithinInterval ==
    /\ mainpc \in LoopPCs => sigMain <= Interval
    /\ gatherpc \in {"select", "syncMetrics"} => sigGather <= Interval

\* C4: the return of c.Sync, with or without an error, leaves the process
\* running and main in its loop; main leaves the loop only through the signal
\* branch; after a failed pass the tick branch is taken again when a tick is
\* buffered.
C4_FailedSyncNotFatal ==
    /\ [][ /\ syncActive' < syncActive => (exitCode' = Running /\ mainpc' = "observe")
           /\ (mainpc \in LoopPCs /\ mainpc' \notin LoopPCs) =>
                  (mainpc = "select" /\ sigMain >= 0 /\ sigMain' = -1 /\ mainpc' = "done") ]_vars
    /\ [](exitCode = Running /\ syncErr /\ mainpc = "select" /\ tickMain > 0 => ENABLED MainTick)
C4_Witness ==
    /\ syncErr
    /\ mainpc = "sync"
    /\ syncCalls >= 2
    /\ exitCode = Running

\* C5: whenever main waits at its select, the number of observations on
\* metrics.ResyncPeriod equals the number of completed c.Sync calls; an
\* observation is added one at a time, by main after a pass, never by gather.
C5_OneObservationPerSync ==
    /\ [](mainpc = "select" => observations = syncCalls - syncActive)
    /\ [][ observations' # observations =>
             /\ observations' = observations + 1
             /\ mainpc = "observe"
             /\ gatherpc' = gatherpc
             /\ UNCHANGED metricsVars ]_vars
C5_Witness ==
    /\ mainpc = "select"
    /\ syncErr
    /\ observations >= 2
    /\ metricsCalls >= 1

\* C6: while a c.Sync call is in progress, every step of gather and of serve
\* that its own state allows is enabled, and time (hence gather's ticker)
\* goes on.
C6_StuckSyncStallsOnlyReconcile ==
    (exitCode = Running /\ syncActive > 0) =>
        /\ (gatherpc = "mkTick") => ENABLED GatherMkTick
        /\ (gatherpc = "notify") => ENABLED GatherNotify
        /\ (gatherpc = "select" /\ tickGather > 0) => ENABLED GatherTick
        /\ (gatherpc = "select" /\ sigGather >= 0) => ENABLED GatherSig
        /\ (gatherpc = "syncMetrics") => ENABLED GatherSyncMetricsReturn
        /\ (servepc = "handle") => ENABLED ServeHandle
        /\ (servepc = "listen") => ENABLED ServeListen
        /\ (servepc = "serving" /\ served < MaxRequests) => ENABLED ServeRequest
        /\ (~GatherReady /\ clock + TimeStep <= MaxClock) => ENABLED Advance
C6_Witness ==
    /\ exitCode = Running
    /\ syncActive = 1
    /\ syncCalls = 1
    /\ metricsCalls >= 2
    /\ served >= 1

\* C7: ListenAndServe failing or returning ends the process with status 1;
\* once main is in its loop nothing else ends the process with a non-zero
\* status; a step of serve that does not end the process changes nothing of
\* the two timer loops.
C7_ServeFailureIsFatal ==
    [][ /\ (servepc # "failed" /\ servepc' = "failed") =>
              (exitCode' = ExitFatal /\ fatalMsg' = "ListenAndServe returned.")
        /\ (mainpc \in LoopPCs /\ exitCode = Running /\ exitCode' \notin {Running, ExitOK}) =>
              servepc' = "failed"
        /\ (servepc # "none" /\ serveVars' # serveVars /\ exitCode' = Running) =>
              UNCHANGED <<mainpc, gatherpc, timeVars, sigVars, syncVars, metricsVars>> ]_vars
C7_Witness ==
    /\ exitCode = ExitFatal
    /\ servepc = "failed"
    /\ mainpc \in LoopPCs
    /\ syncCalls >= 1
    /\ metricsCalls >= 1

\* C8: when a startup step has failed, no goroutine has been started, no
\* ticker exists, no tick has been handled and no request has been served.
C8_StartupFailureBeforeLoops ==
    fatalMsg \in StartupFailures =>
        /\ exitCode = ExitFatal
        /\ spawned = [push |-> 0, serve |-> 0, gather |-> 0]
        /\ servepc = "none"
        /\ gatherpc = "none"
        /\ mainpc \notin LoopPCs
        /\ mainT0 = -1
        /\ gatherT0 = -1
        /\ syncCalls = 0
        /\ metricsCalls = 0
        /\ served = 0
C8_Witness ==
    /\ exitCode = ExitFatal
    /\ fatalMsg = "Must specify a valid --github-endpoint URL."

\* C9: when every c.Sync returns at once, the number of c.Sync calls made D
\* seconds after main's ticker was created is within 1 of D \div Interval
\* while the loop runs, and it is 3 when D = 95.
C9_InvocationCount ==
    (mainpc \in LoopPCs /\ exitCode = Running) =>
        LET D == clock - mainT0
        IN  /\ syncCalls >= (D \div Interval) - 1
            /\ syncCalls <= (D \div Interval) + 1
            /\ D = 95 => syncCalls = 3
C9_Witness ==
    /\ mainpc = "select"
    /\ exitCode = Running
    /\ clock - mainT0 = 95
    /\ syncCalls = 3

\* C10: at most one c.Sync call and at most one c.SyncMetrics call is in
\* progress at any time.
C10_SequentialIterations ==
    /\ syncActive <= 1
    /\ metricsActive <= 1
C10_Witness ==
    /\ syncActive = 1
    /\ tickMain = 1
    /\ metricsActive = 1
    /\ tickGather = 1

\* C11: while the process runs, each timer loop either has a step enabled or
\* waits at its select with both channels empty, and whenever both loops wait
\* and the clock has not reached its bound, time can advance to the next tick.
C11_NoDeadlock ==
    exitCode = Running =>
        /\ mainpc \in LoopPCs =>
              \/ mainpc = "select" /\ tickMain = 0 /\ sigMain = -1
              \/ ENABLED MainTick
              \/ ENABLED MainSig
              \/ ENABLED MainSyncReturns
              \/ ENABLED MainObserve
        /\ gatherpc \in {"select", "syncMetrics"} =>
              \/ gatherpc = "select" /\ tickGather = 0 /\ sigGather = -1
              \/ ENABLED GatherTick
              \/ ENABLED GatherSig
              \/ ENABLED GatherSyncMetricsReturn
        /\ (~MainReady /\ ~GatherReady /\ mainT0 >= 0 /\ clock + TimeStep <= MaxClock) =>
              ENABLED Advance
C11_Witness ==
    /\ exitCode = Running
    /\ syncActive = 1
    /\ metricsActive = 1
    /\ sigMain >= 0
    /\ sigGather >= 0

\* ---- fair scheduling ----

\* a step of main other than the two cases of its select
MainStep ==
    \/ ParseSelector
    \/ StartConfigAgent
    \/ NewKubeClient
    \/ SelectAuth
    \/ LoadTLS
    \/ NewJenkinsClient
    \/ ReadGithubToken
    \/ ParseGithubEndpoint
    \/ NewController
    \/ StartPushMetrics
    \/ GoServe
    \/ GoGather
    \/ MainMkTick
    \/ MainNotify
    \/ MainSyncReturns
    \/ MainObserve

\* a step of gather other than the two cases of its select
GatherStep ==
    \/ GatherMkTick
    \/ GatherNotify
    \/ GatherSyncMetricsReturn

\* Every goroutine that can run does run and every call into the controller
\* returns; a case of a select that is ready again and again is taken at some
\* point (the select picks among its ready cases at random); time goes on.
\* Nothing forces a signal to be sent, a request to arrive or ListenAndServe
\* to return.
Fairness ==
    /\ WF_vars(Advance)
    /\ WF_vars(MainStep)
    /\ WF_vars(GatherStep)
    /\ WF_vars(ServeHandle)
    /\ WF_vars(ServeListen)
    /\ SF_vars(MainTick)
    /\ SF_vars(MainSig)
    /\ SF_vars(GatherTick)
    /\ SF_vars(GatherSig)

SpecFair == Init /\ [][Next]_vars /\ Fairness

C13_IndependentSubscriptions ==
    [][ /\ (sigCount' > sigCount /\ notify = {"main", "gather"} /\ sigMain = -1 /\ sigGather = -1) =>
              (sigMain' = 0 /\ sigGather' = 0)
        /\ (sigGather >= 0 /\ sigGather' = -1) => sigMain' = sigMain
        /\ (sigMain >= 0 /\ sigMain' = -1) => sigGather' = sigGather ]_vars
C13_Witness ==
    /\ exitCode = Running
    /\ gatherpc = "done"
    /\ sigCount = 1
    /\ sigMain >= 0
    /\ mainpc \in LoopPCs

\* long-lived tasks of the process: main's reconcile loop and the goroutines started
Tasks == 1 + spawned.push + spawned.serve + spawned.gather

\* C14 as stated: once main is in its loop, serve and gather have been started
\* once each and exactly three long-lived tasks run.
C14_ExactlyThreeTasks ==
    mainpc \in LoopPCs =>
        /\ spawned.serve = 1
        /\ spawned.gather = 1
        /\ Tasks = 3

\* C14 as amended: once main is in its loop, serve and gather have been started
\* once each and the metrics push at most once, so three or four tasks run; no
\* goroutine is started while main is in its loop; a loop that has ended
\* stays ended.
C14_FixedTaskSet ==
    /\ [](mainpc \in LoopPCs \cup {"done"} =>
             /\ spawned.serve = 1
             /\ spawned.gather = 1
             /\ spawned.push \in {0, 1}
             /\ Tasks \in {3, 4})
    /\ [][ /\ mainpc \in LoopPCs \cup {"done"} => spawned' = spawned
           /\ gatherpc = "done" => gatherpc' = "done"
           /\ servepc = "failed" => servepc' = "failed"
           /\ mainpc = "done" => mainpc' = "done" ]_vars
C14_Witness ==
    /\ exitCode = Running
    /\ mainpc = "sync"
    /\ syncCalls >= 2
    /\ Tasks = 4
    /\ gatherpc = "done"

\* C15: when the process has ended on a malformed label selector, main is
\* still at its first step and nothing has been constructed: no config agent,
\* no kube, Jenkins or GitHub client, no controller, no goroutine.
C15_SelectorCheckedFirst ==
    fatalMsg = "Error parsing label selector." =>
        /\ exitCode = ExitFatal
        /\ mainpc = "parseSelector"
        /\ created = {}
        /\ auth = {}
        /\ spawned = [push |-> 0, serve |-> 0, gather |-> 0]
C15_Witness ==
    /\ exitCode = ExitFatal
    /\ fatalMsg = "Error parsing label selector."

\* positions of main up to and including the selection of the auth scheme
PreAuthPCs == {"parseSelector", "startConfig", "kubeClient", "auth"}

\* C16: once main is past the auth selection exactly one scheme is set in ac:
\* Basic whenever the token file is given (the bearer token file is then not
\* read, so it cannot fail), BearerToken only when the token file is not given
\* and the bearer token file is; with neither file main never gets past the
\* selection and ends with the missing-auth message.
C16_ExactlyOneAuthScheme ==
    /\ mainpc \notin PreAuthPCs =>
          /\ Cardinality(auth) = 1
          /\ flags.token => auth = {"Basic"}
          /\ (~flags.token) => (flags.bearer /\ auth = {"BearerToken"})
    /\ (~flags.token /\ ~flags.bearer) => mainpc \in PreAuthPCs
    /\ fatalMsg = "An auth token for basic or bearer token auth must be supplied." =>
          (~flags.token /\ ~flags.bearer /\ auth = {})
    /\ fatalMsg = "Could not read bearer token file." => ~flags.token
C16_Witness ==
    /\ flags.token
    /\ flags.bearer
    /\ auth = {"Basic"}
    /\ mainpc \in LoopPCs

\* C17: once main is in its loop the process ends only by main receiving the
\* signal and returning (status 0) or by ListenAndServe returning (status 1);
\* the step by which gather returns leaves the process running and main and
\* serve where they are.
C17_ProcessEndsByMainOrServe ==
    [][ /\ (mainpc \in LoopPCs /\ exitCode = Running /\ exitCode' # Running) =>
              \/ (mainpc = "select" /\ sigMain >= 0 /\ mainpc' = "done" /\ exitCode' = ExitOK)
              \/ (servepc # "failed" /\ servepc' = "failed" /\ exitCode' = ExitFatal)
        /\ (gatherpc # "done" /\ gatherpc' = "done") =>
              (exitCode' = Running /\ mainpc' = mainpc /\ UNCHANGED <<serveVars, syncVars>>) ]_vars
C17_Witness ==
    /\ exitCode = Running
    /\ gatherpc = "done"
    /\ syncActive = 1
    /\ sigMain > Interval
    /\ servepc = "serving"
    /\ served >= 1

\* C18: each tick channel holds at most one tick; the start of an iteration
\* takes the one buffered tick and leaves the channel empty, so a further
\* iteration needs the ticker to fire again; the number of iterations a loop
\* has started never exceeds the number of whole intervals since its ticker
\* was created, so none starts before one full interval has passed.
C18_TicksNotQueued ==
    /\ [](/\ tickMain <= 1
          /\ tickGather <= 1
          /\ syncCalls * Interval <= (IF mainT0 >= 0 THEN clock - mainT0 ELSE 0)
          /\ metricsCalls * Interval <= (IF gatherT0 >= 0 THEN clock - gatherT0 ELSE 0))
    /\ [][ /\ syncCalls' # syncCalls =>
                (syncCalls' = syncCalls + 1 /\ tickMain = 1 /\ tickMain' = 0)
           /\ metricsCalls' # metricsCalls =>
                (metricsCalls' = metricsCalls + 1 /\ tickGather = 1 /\ tickGather' = 0) ]_vars
\* the first c.Sync lasted two intervals or more (the tick of the third interval
\* was dropped) and the one catch-up iteration has started with no tick left
C18_Witness ==
    /\ exitCode = Running
    /\ mainpc = "sync"
    /\ syncCalls = 2
    /\ clock - mainT0 >= 3 * Interval
    /\ tickMain = 0

====
